---------------------------- MODULE Spec2Model ----------------------------
(***************************************************************************)
(* A model of netneurotools.stats.gen_spinsamples and _gen_rotation        *)
(* (src/netneurotools/stats.py): the spin-test resampling generator.       *)
(*                                                                         *)
(* Arrays are records [shape, data] with the data in row-major order.      *)
(* Coordinates are integer triples and the random 3x3 draws are integer    *)
(* matrices on which the Householder QR factorisation is exact, so that    *)
(* every rotation is a signed permutation matrix and rotated coordinates   *)
(* stay integral.  Euclidean distances are fixed-point numbers with Scale  *)
(* units per unit of length.  Indices stored in arrays are 0-based, as in  *)
(* the source; the sequences holding them are 1-based.                     *)
(***************************************************************************)
EXTENDS Integers, Sequences, FiniteSets, TLC

(***************************************************************************)
(* Bounds of the model.                                                    *)
(***************************************************************************)
\* n_rotate ranges over 0..MaxRotate
MaxRotate == 2
\* integer seeds range over 0..MaxSeed
MaxSeed == 9
\* fixed-point resolution of a distance
Scale == 100

(***************************************************************************)
(* Program constant: the retry budget of the duplicate-avoidance loop,     *)
(* `while duplicated and count < 500`.                                     *)
(***************************************************************************)
MaxAttempts == 500

\* Python's None is the empty sequence, and a value that may be None a
\* sequence of one element
None == << >>
Some(x) == <<x>>

(***************************************************************************)
(* Integer helpers.                                                        *)
(***************************************************************************)
\* np.sign
Sign(x) == IF x > 0 THEN 1 ELSE IF x < 0 THEN -1 ELSE 0

RECURSIVE SqrtSearch(_, _, _)
\* the largest r in lo..hi with r * r <= x (bisection)
SqrtSearch(x, lo, hi) ==
    IF lo >= hi THEN lo
    ELSE LET mid == (lo + hi + 1) \div 2
         IN  IF mid * mid <= x THEN SqrtSearch(x, mid, hi)
                               ELSE SqrtSearch(x, lo, mid - 1)

RECURSIVE SqrtUpper(_, _)
\* a power of two h, from h on, with h * h > x
SqrtUpper(x, h) == IF h * h > x THEN h ELSE SqrtUpper(x, 2 * h)

\* floor of the square root of a natural number
ISqrt(x) == SqrtSearch(x, 0, SqrtUpper(x, 1))

RECURSIVE SumSeq(_)
\* ndarray.sum() of a 1-D array
SumSeq(s) == IF s = << >> THEN 0 ELSE Head(s) + SumSeq(Tail(s))

RECURSIVE ProdSeq(_)
ProdSeq(s) == IF s = << >> THEN 1 ELSE Head(s) * ProdSeq(Tail(s))

\* the elements of a sequence
Range(s) == {s[i] : i \in 1..Len(s)}

\* a function on 1..n as the sequence of its values
AsSeq(f) == f \o << >>

(***************************************************************************)
(* 3x3 matrices, as triples of rows.                                       *)
(***************************************************************************)
Eye == <<<<1, 0, 0>>, <<0, 1, 0>>, <<0, 0, 1>>>>

MatMul(A, B) ==
    LET e(i, j) == A[i][1] * B[1][j] + A[i][2] * B[2][j] + A[i][3] * B[3][j]
    IN  << <<e(1, 1), e(1, 2), e(1, 3)>>,
           <<e(2, 1), e(2, 2), e(2, 3)>>,
           <<e(3, 1), e(3, 2), e(3, 3)>> >>

\* np.linalg.det
Det(A) ==
      A[1][1] * (A[2][2] * A[3][3] - A[2][3] * A[3][2])
    - A[1][2] * (A[2][1] * A[3][3] - A[2][3] * A[3][1])
    + A[1][3] * (A[2][1] * A[3][2] - A[2][2] * A[3][1])

\* np.diag of a vector
DiagMat(d) == <<<<d[1], 0, 0>>, <<0, d[2], 0>>, <<0, 0, d[3]>>>>

\* a row vector times a matrix: p @ M
VecMat(p, M) ==
    << p[1] * M[1][1] + p[2] * M[2][1] + p[3] * M[3][1],
       p[1] * M[1][2] + p[2] * M[2][2] + p[3] * M[3][2],
       p[1] * M[1][3] + p[2] * M[2][3] + p[3] * M[3][3] >>

(***************************************************************************)
(* np.linalg.qr: Householder QR as LAPACK's dgeqr2/dlarfg compute it.      *)
(* Step i reflects column i of the working matrix onto beta * e_i with     *)
(* beta = -sign(alpha) * norm (alpha the diagonal entry, sign(0) = +1);    *)
(* a column whose entries below the diagonal are all zero is left alone.   *)
(* On the matrices of NormalDraws every norm is an integer and every       *)
(* reflector an integer matrix, so the integer divisions below are exact.  *)
(***************************************************************************)
\* the squared norm of column i of W below the diagonal
BelowDiagonal2(W, i) ==
    (IF 2 > i THEN W[2][i] * W[2][i] ELSE 0) + W[3][i] * W[3][i]

\* dlarfg's beta for column i of W
Beta(W, i, norm) == IF W[i][i] >= 0 THEN -norm ELSE norm

\* the Householder vector: column i of W from the diagonal down, minus
\* beta * e_i
HouseholderVector(W, i, beta) ==
    << IF 1 < i THEN 0 ELSE W[1][i] - beta,
       IF 2 < i THEN 0 ELSE IF 2 = i THEN W[2][i] - beta ELSE W[2][i],
       W[3][i] >>

\* the reflector I - 2 v v^T / (v^T v)
Reflector(v) ==
    LET h(r, c) == (IF r = c THEN 1 ELSE 0)
                   - ((2 * v[r] * v[c])
                      \div (v[1] * v[1] + v[2] * v[2] + v[3] * v[3]))
    IN  << <<h(1, 1), h(1, 2), h(1, 3)>>,
           <<h(2, 1), h(2, 2), h(2, 3)>>,
           <<h(3, 1), h(3, 2), h(3, 3)>> >>

Householder(W, i) ==
    IF BelowDiagonal2(W, i) = 0 THEN Eye
    ELSE Reflector(HouseholderVector(W, i,
             Beta(W, i, ISqrt(W[i][i] * W[i][i] + BelowDiagonal2(W, i)))))

\* the second step, on W1 = H1 A, and the factors Q = H1 H2, R = H2 H1 A
QRFactors(H1, H2, W1) == [Q |-> MatMul(H1, H2), R |-> MatMul(H2, W1)]
QRSecond(H1, W1) == QRFactors(H1, Householder(W1, 2), W1)
QRFirst(H1, A) == QRSecond(H1, MatMul(H1, A))

\* (Q, R) with A = Q R, Q orthogonal and R upper triangular
QR(A) == QRFirst(Householder(A, 1), A)

(***************************************************************************)
(* _gen_rotation, from the 3x3 matrix `drawn` that rs.normal(size=(3, 3))  *)
(* returned.                                                               *)
(***************************************************************************)
\* for reflecting across the Y-Z plane
reflect == <<<<-1, 0, 0>>, <<0, 1, 0>>, <<0, 0, 1>>>>

\* rotate_l @ np.diag(np.sign(np.diag(temp)))
sign_fixed(qr) ==
    MatMul(qr.Q, DiagMat(<<Sign(qr.R[1][1]), Sign(qr.R[2][2]), Sign(qr.R[3][3])>>))

\* A with its first column negated: rotate_l[:, 0] = -rotate_l[:, 0]
NegateFirstColumn(A) ==
    << <<-A[1][1], A[1][2], A[1][3]>>,
       <<-A[2][1], A[2][2], A[2][3]>>,
       <<-A[3][1], A[3][2], A[3][3]>> >>

\* the orthogonal matrix left as it is, reflection or not
unfixed(A) == A

\* if np.linalg.det(rotate_l) < 0: negate the first column
proper(A) == IF Det(A) < 0 THEN NegateFirstColumn(A) ELSE A

\* the left rotation: Q with the signs of R's diagonal, made proper
rotate_l(drawn) == proper(sign_fixed(QR(drawn)))

\* the left rotation reflected on one side only
rotate_r_one_sided(left) == MatMul(reflect, left)

\* the left rotation reflected across the Y-Z plane
rotate_r(left) == MatMul(MatMul(reflect, left), reflect)

\* the left rotation returned for both hemispheres
rotations_unmirrored(left) == [left |-> left, right |-> left]

\* return rotate_l, rotate_r
rotations(left) == [left |-> left, right |-> rotate_r(left)]

gen_rotation(drawn) == rotations(rotate_l(drawn))

(***************************************************************************)
(* The random source.  numpy's RandomState is a deterministic generator:   *)
(* its state is the seed it was built from and the number of draws made,   *)
(* and draw number pos of the generator seeded with s is a fixed function  *)
(* of (s, pos).  NormalDraws lists the 3x3 matrices rs.normal can return   *)
(* here; StreamDraw says which one each seed's stream holds at each        *)
(* position.  The seeds cover streams that cycle through the matrices,     *)
(* streams that repeat one matrix for ever, and streams that repeat one    *)
(* matrix for MaxAttempts - 1 or MaxAttempts draws and cycle from there.   *)
(***************************************************************************)
NormalDraws ==
    << <<<< 1, 0, 0>>, << 0, 1, 0>>, << 0, 0, 1>>>>,
       <<<<-1, 0, 0>>, << 0,-1, 0>>, << 0, 0,-1>>>>,
       <<<< 0, 0, 1>>, << 2, 1, 0>>, << 0, 3, 2>>>>,
       <<<< 0,-2, 1>>, << 1, 1, 0>>, << 0, 0, 3>>>>,
       <<<< 0, 1, 1>>, << 0, 0, 2>>, <<-3, 1, 0>>>>,
       <<<< 2, 1,-1>>, << 0, 0, 1>>, << 0,-1, 2>>>> >>

NDraws == Len(NormalDraws)

\* the index in NormalDraws of draw number pos (from 0) of the stream of seed s
StreamDraw(s, pos) ==
    IF s < NDraws THEN ((s + pos) % NDraws) + 1
    ELSE LET k      == s - NDraws
             mode   == k % 3
             a      == (k \div 3) % NDraws
             repeat == IF mode = 1 THEN MaxAttempts - 1 ELSE MaxAttempts
         IN  IF mode = 0 \/ pos < repeat THEN a + 1
             ELSE ((a + 1 + pos - repeat) % NDraws) + 1

\* np.random.RandomState(seed)
RandomState(s) == [seed |-> s, pos |-> 0]

\* rs.normal(size=(3, 3)): the matrix drawn and the generator's next state
normal(state) ==
    [value |-> NormalDraws[StreamDraw(state.seed, state.pos)],
     state |-> [state EXCEPT !.pos = @ + 1]]

\* a check_random_state that ignores the seed and hands out the global
\* generator
check_random_state_global(s) == None

\* a RandomState instance passed as seed: the caller's generator, built from
\* seed s and drawn from pos times already
Instance(s, pos) == <<s, pos>>
IsInstance(s) == Len(s) = 2
IsInteger(s) == Len(s) = 1

\* the state of the caller's generator
InstanceState(s) == [seed |-> s[1], pos |-> s[2]]

\* sklearn's check_random_state: None stands for numpy's global generator,
\* an integer seed builds a generator of its own, a RandomState instance is
\* returned as it is.  The result is None (use the global generator) or the
\* state of the generator of the call, which for an instance is the
\* caller's own object.
check_random_state(s) ==
    IF s = None THEN None
    ELSE IF IsInstance(s) THEN Some(InstanceState(s))
    ELSE Some(RandomState(s[1]))

(***************************************************************************)
(* Arrays: [shape |-> tuple of dimensions, data |-> row-major elements].   *)
(***************************************************************************)
ndim(a) == Len(a.shape)

\* ndarray.squeeze(): the dimensions of length 1 are dropped
squeeze(a) == [a EXCEPT !.shape = SelectSeq(a.shape, LAMBDA d : d # 1)]

\* a number of a float array, held as `x` units of 1 / unit, cast to int:
\* the fraction is dropped (truncation towards zero)
Truncated(x, unit) == IF x >= 0 THEN x \div unit ELSE -((-x) \div unit)

\* ndarray.astype(int) of an array holding data[i] / unit
astype_int(a) ==
    [shape |-> a.shape,
     data  |-> AsSeq([i \in 1..Len(a.data) |-> Truncated(a.data[i], a.unit)])]

\* len(a), for an array of at least one dimension
len(a) == a.shape[1]

\* the number of elements of one entry a[i] along the first axis
RowSize(a) == ProdSeq(Tail(a.shape))

\* a[i] (i from 0), flattened
Row(a, i) == SubSeq(a.data, i * RowSize(a) + 1, (i + 1) * RowSize(a))

\* np.max / np.min of a non-empty integer array
ArrMax(a) == CHOOSE x \in Range(a.data) : \A y \in Range(a.data) : y <= x
ArrMin(a) == CHOOSE x \in Range(a.data) : \A y \in Range(a.data) : x <= y

(***************************************************************************)
(* Input validation of gen_spinsamples: the exception the checks raise,    *)
(* "none" when all pass.  coords.shape[-1] indexes the shape tuple, which  *)
(* is an IndexError on a 0-d array; hemiid is the array already squeezed.  *)
(***************************************************************************)
coords_error(coords) ==
    IF ndim(coords) = 0 THEN "IndexError"
    ELSE IF coords.shape[ndim(coords)] # 3 \/ ndim(squeeze(coords)) # 2
         THEN "ValueError"
         ELSE "none"

\* the checks of hemiid without the comparison of the two lengths
hemiid_error_any_length(coords, hemiid) ==
    IF ndim(hemiid) # 1 THEN "ValueError"
    ELSE IF len(hemiid) = 0 THEN "ValueError"
    ELSE IF ArrMax(hemiid) # 1 \/ ArrMin(hemiid) # 0 THEN "ValueError"
    ELSE "none"

hemiid_error(coords, hemiid) ==
    IF ndim(hemiid) # 1 THEN "ValueError"
    ELSE IF len(coords) # len(hemiid) THEN "ValueError"
    ELSE IF len(hemiid) = 0 THEN "ValueError"
    ELSE IF ArrMax(hemiid) # 1 \/ ArrMin(hemiid) # 0 THEN "ValueError"
    ELSE "none"

first_error(e1, e2) == IF e1 # "none" THEN e1 ELSE e2

validation_error(coords, hemiid) ==
    first_error(coords_error(coords), hemiid_error(coords, squeeze(astype_int(hemiid))))

(***************************************************************************)
(* The split into hemispheres.                                             *)
(***************************************************************************)
\* inds: np.arange(len(coords))
inds(n) == AsSeq([i \in 1..n |-> i - 1])

\* inds[hemiid == h]: the positions labelled h, in increasing order
inds_of(hemiid, h) ==
    SelectSeq(inds(Len(hemiid.data)), LAMBDA i : hemiid.data[i + 1] = h)

\* coords[hemiid == h]: the entries of coords at those positions
rows_at(coords, ix) == AsSeq([k \in 1..Len(ix) |-> Row(coords, ix[k])])

coords_of(coords, hemiid, h) == rows_at(coords, inds_of(hemiid, h))

(***************************************************************************)
(* Distances and the two assignment solvers.                               *)
(***************************************************************************)
\* Euclidean distance between two points, in 1/Scale units
Distance(p, q) ==
    ISqrt(Scale * Scale * (  (p[1] - q[1]) * (p[1] - q[1])
                           + (p[2] - q[2]) * (p[2] - q[2])
                           + (p[3] - q[3]) * (p[3] - q[3])))

\* the points left as they are, the rotation forgotten
unrotated(pts, rot) == pts

\* pts @ rot
Rotate(pts, rot) == AsSeq([k \in 1..Len(pts) |-> VecMat(pts[k], rot)])

\* spatial.distance_matrix(x, y)
distance_matrix(x, y) ==
    AsSeq([i \in 1..Len(x) |-> AsSeq([j \in 1..Len(y) |-> Distance(x[i], y[j])])])

\* the index of the greatest element of the row, the lowest such index
ArgMax(row) ==
    CHOOSE j \in 1..Len(row) :
        \A k \in 1..Len(row) : row[j] > row[k] \/ (row[j] = row[k] /\ j <= k)

\* the index (from 1) of the least element of a row of distances, the
\* lowest such index
ArgMin(row) ==
    CHOOSE j \in 1..Len(row) :
        \A k \in 1..Len(row) : row[j] < row[k] \/ (row[j] = row[k] /\ j <= k)

\* the nearest data point of each query point, given the distances d[i][j]
\* from query point i to data point j
nearest_of(d) == AsSeq([i \in 1..Len(d) |-> ArgMin(d[i])])

query_result(d, near) ==
    [dist |-> AsSeq([i \in 1..Len(d) |-> d[i][near[i]]]),
     col  |-> AsSeq([i \in 1..Len(d) |-> near[i] - 1])]

nearest_in(d) == query_result(d, nearest_of(d))

\* spatial.cKDTree(data).query(x, 1): for each query point the distance to
\* and the index (from 0) of its nearest data point; of several nearest
\* points the one of lowest index
cKDTree_query(data, x) == nearest_in(distance_matrix(x, data))

RECURSIVE Orderings(_)
\* the sequences that list every element of the finite set S exactly once
Orderings(S) ==
    IF S = {} THEN {<< >>}
    ELSE UNION {{<<x>> \o p : p \in Orderings(S \ {x})} : x \in S}

\* the bijections of 1..k, as sequences
Bijections(k) == Orderings(1..k)

\* p comes before q in lexicographic order, or is q
LexLeq(p, q) ==
    \/ p = q
    \/ \E i \in 1..Len(p) : p[i] < q[i] /\ \A j \in 1..(i - 1) : p[j] = q[j]

\* the total distance of the assignment i -> p[i]
AssignmentCost(d, p) == SumSeq([i \in 1..Len(p) |-> d[i][p[i]]])

\* the least element of a non-empty set of numbers
Least(S) == CHOOSE c \in S : \A c2 \in S : c <= c2

\* the first in lexicographic order of a non-empty set of sequences
LexFirst(S) == CHOOSE p \in S : \A q \in S : LexLeq(p, q)

\* the bijections among `all` of total distance `least`
optimal(d, all, least) == {p \in all : AssignmentCost(d, p) = least}

\* a solver that returns the first bijection whatever the distances
first_of(d, all) == LexFirst(all)

best_of(d, all) ==
    LexFirst(optimal(d, all, Least({AssignmentCost(d, p) : p \in all})))

col_ind(best) == AsSeq([i \in 1..Len(best) |-> best[i] - 1])

\* optimize.linear_sum_assignment(d) on a square matrix: row i is assigned
\* column col[i] (from 0), a bijection of least total distance; of several
\* such bijections the first in lexicographic order
linear_sum_assignment(d) == [col |-> col_ind(best_of(d, Bijections(Len(d))))]

\* dist[row, col].sum()
assigned(d, col) ==
    [col |-> col, cost |-> SumSeq([i \in 1..Len(d) |-> d[i][col[i] + 1]])]

optimal_in(d) == assigned(d, linear_sum_assignment(d).col)

\* one hemisphere of one attempt: the donors (within the hemisphere, from 0)
\* and the cost, with exact=True
exact_mapping(pts, rot) == optimal_in(distance_matrix(pts, Rotate(pts, rot)))

summed(q) == [col |-> q.col, cost |-> SumSeq(q.dist)]

\* a query the wrong way round: the tree over the un-rotated points, the
\* rotated points as the query
nearest_mapping_from_rotated(pts, rot) ==
    summed(cKDTree_query(pts, Rotate(pts, rot)))

\* the same with exact=False
nearest_mapping(pts, rot) == summed(cKDTree_query(Rotate(pts, rot), pts))

\* a dispatch that takes the nearest-neighbour path whatever `exact` is
always_nearest(exact, pts, rot) == nearest_mapping(pts, rot)

hemisphere_mapping(exact, pts, rot) ==
    IF exact THEN exact_mapping(pts, rot) ELSE nearest_mapping(pts, rot)

\* the place (from 1) of index i in the sequence ix
PlaceOf(ix, i) == CHOOSE k \in 1..Len(ix) : ix[k] = i

merged(hemiid, il, ir, lcol, rcol) ==
    AsSeq([i \in 1..Len(hemiid.data) |->
              IF hemiid.data[i] = 0 THEN il[lcol[PlaceOf(il, i - 1)] + 1]
              ELSE IF hemiid.data[i] = 1 THEN ir[rcol[PlaceOf(ir, i - 1)] + 1]
              ELSE 0])

\* a merge that stores the within-hemisphere donors as they are:
\* resampled[inds_l] = lcol; resampled[inds_r] = rcol
merge_unmapped(hemiid, lcol, rcol) ==
    AsSeq([i \in 1..Len(hemiid.data) |->
              IF hemiid.data[i] = 0
              THEN lcol[PlaceOf(inds_of(hemiid, 0), i - 1)]
              ELSE rcol[PlaceOf(inds_of(hemiid, 1), i - 1)]])

\* a merge that takes the left hemisphere to be the first positions and the
\* right hemisphere the positions after them
merge_contiguous(hemiid, lcol, rcol) ==
    AsSeq([i \in 1..Len(hemiid.data) |->
              IF hemiid.data[i] = 0
              THEN lcol[PlaceOf(inds_of(hemiid, 0), i - 1)]
              ELSE Len(inds_of(hemiid, 0))
                       + rcol[PlaceOf(inds_of(hemiid, 1), i - 1)]])

\* resampled[inds_l] = inds[inds_l][lcol]; resampled[inds_r] = inds[inds_r][rcol]
\* on resampled = np.zeros(len(coords))
merge(hemiid, lcol, rcol) ==
    merged(hemiid, inds_of(hemiid, 0), inds_of(hemiid, 1), lcol, rcol)

\* a candidate whose cost leaves out the right hemisphere
assembled_left_cost(hemiid, l, r) ==
    [resampled |-> merge(hemiid, l.col, r.col), ccost |-> l.cost]

\* the candidate column and its cost, from the two hemispheres' mappings
assembled(hemiid, l, r) ==
    [resampled |-> merge(hemiid, l.col, r.col), ccost |-> l.cost + r.cost]

rotated_candidate(coords, hemiid, exact, rot) ==
    assembled(hemiid,
              hemisphere_mapping(exact, coords_of(coords, hemiid, 0), rot.left),
              hemisphere_mapping(exact, coords_of(coords, hemiid, 1), rot.right))

\* one attempt of the retry loop, from the matrix drawn: the candidate
\* column and its cost
candidate(coords, hemiid, exact, drawn) ==
    rotated_candidate(coords, hemiid, exact, gen_rotation(drawn))

\* a duplicate check without the comparison with the identity mapping
is_duplicate_of_column(resampled, spinsamples, n) ==
    \E c \in 1..n : spinsamples[c] = resampled

\* the duplicate check: the candidate equals one of the columns 0..n-1
\* already stored, or the identity mapping inds
is_duplicate(resampled, spinsamples, n) ==
    IF \E c \in 1..n : spinsamples[c] = resampled THEN TRUE
    ELSE resampled = inds(Len(resampled))

\* the library calls of one attempt on the split coordinates: cKDTree and
\* distance_matrix take 2-D data only and raise ValueError otherwise
solver_error(coords) == IF ndim(coords) # 2 THEN "ValueError" ELSE "none"

(***************************************************************************)
(* The arguments a call is made with.                                      *)
(***************************************************************************)
Array(sh, d) == [shape |-> sh, data |-> d]

\* an array of integer labels, and one of float labels given in halves
Labels(sh, d) == [shape |-> sh, data |-> d, unit |-> 1]
Halves(sh, d) == [shape |-> sh, data |-> d, unit |-> 2]

\* the coordinates of the docstring's example
DocCoords == <<0, 0, 1, 1, 0, 0, 0, 0, 1, 1, 0, 0>>

CoordsInputs ==
    { Array(<<4, 3>>, DocCoords),
      \* two left points and their mirror images
      Array(<<4, 3>>, <<-1, 2, 2, -2, 1, 2, 1, 2, 2, 2, 1, 2>>),
      Array(<<5, 3>>, <<-1, 2, 2, 1, 2, 2, -2, 2, 1, 2, 1, 2, -2, -1, 2>>),
      \* each hemisphere a pair of points that a half turn about the x axis
      \* exchanges
      Array(<<4, 3>>, <<-2, 1, 2, -2, -1, -2, 2, 1, 2, 2, -1, -2>>),
      Array(<<4, 1, 3>>, DocCoords),
      Array(<<1, 4, 3>>, DocCoords),
      Array(<<2, 2, 3>>, DocCoords),
      Array(<<4, 2>>, <<0, 0, 1, 0, 0, 1, 1, 1>>),
      Array(<<1, 3>>, <<0, 0, 1>>),
      Array(<<3>>, <<0, 0, 1>>),
      Array(<< >>, <<1>>) }

HemiidInputs ==
    { Labels(<<4>>, <<0, 0, 1, 1>>),
      Labels(<<4>>, <<0, 1, 0, 1>>),
      Labels(<<5, 1>>, <<0, 1, 0, 1, 0>>),
      Labels(<<4>>, <<0, 0, 0, 0>>),
      Labels(<<4>>, <<1, 1, 1, 1>>),
      Labels(<<4>>, <<0, 1, 2, 1>>),
      Labels(<<4>>, <<0, -1, 1, 0>>),
      Labels(<<2, 2>>, <<0, 0, 1, 1>>),
      Labels(<<3>>, <<0, 1, 1>>),
      Labels(<< >>, <<0>>),
      Labels(<<1, 5>>, <<0, 1, 1, 0, 1>>),
      \* the labels 0, 0.5, 1, 1, 0
      Halves(<<5>>, <<0, 1, 2, 2, 0>>) }

\* seed=None draws from numpy's global generator, whose state is whatever
\* the process left it in
SeedInputs == {None, Instance(2, 1)} \cup {Some(s) : s \in 0..MaxSeed}

GlobalStates == {RandomState(0), RandomState(1)}

(***************************************************************************)
(* The state of a call of gen_spinsamples.                                 *)
(***************************************************************************)
VARIABLES
    coords, hemiid, n_rotate, check_duplicates, exact, seed,   \* arguments
    np_random,    \* the state of numpy's global generator
    rs,           \* the state of the call's own generator, None without one
    pc,           \* where the call is
    err,          \* the exception raised, "none" without one
    spinsamples,  \* the columns of the resampling matrix (a sequence)
    cost,         \* the cost vector
    n,            \* the column being filled (from 0)
    count,        \* attempts made for column n
    duplicated,   \* the last candidate was rejected
    spin,         \* left, right: the rotations of the last attempt
    resampled,    \* the last candidate
    ccost,        \* the cost of the last candidate
    warned,       \* the duplicate-rotation warning was emitted
    warnings,     \* the number of calls of warnings.warn
    draws,        \* the number of calls of _gen_rotation
    result,       \* the value returned, None before
    calls,        \* the calls completed with these arguments
    previous,     \* what the call before this one returned, None without one
    permtest,     \* the state of a call of one of the permutation tests
    triu          \* the state of a call of utils.get_triu

args == <<coords, hemiid, n_rotate, check_duplicates, exact, seed>>
locals == <<spinsamples, cost, n, count, duplicated, spin, resampled, ccost,
            warned>>
\* the calls of the other functions
others == <<permtest, triu>>
vars == <<args, np_random, rs, pc, err, locals, warnings, draws, result,
          calls, previous, others>>

\* no call of the function is under way
Idle == [pc |-> "idle"]

\* the locals before the call has set them
Unset ==
    /\ spinsamples = << >>
    /\ cost = << >>
    /\ n = 0
    /\ count = 0
    /\ duplicated = FALSE
    /\ spin = rotations(Eye)
    /\ resampled = << >>
    /\ ccost = 0
    /\ warned = FALSE

Init ==
    /\ coords \in CoordsInputs
    /\ hemiid \in HemiidInputs
    /\ n_rotate \in 0..MaxRotate
    /\ check_duplicates \in BOOLEAN
    /\ exact \in BOOLEAN
    /\ seed \in SeedInputs
    /\ np_random \in (IF seed = None THEN GlobalStates ELSE {RandomState(0)})
    /\ rs = None
    /\ pc = "start"
    /\ err = "none"
    /\ Unset
    /\ warnings = 0
    /\ draws = 0
    /\ result = None
    /\ calls = 0
    /\ previous = None
    /\ permtest = Idle
    /\ triu = Idle

\* np.zeros((columns, rows)): the two dimensions exchanged
zeros_transposed(rows, columns) ==
    AsSeq([c \in 1..rows |-> AsSeq([i \in 1..columns |-> 0])])

\* np.zeros((rows, columns)), as a sequence of columns
zeros(rows, columns) ==
    AsSeq([c \in 1..columns |-> AsSeq([i \in 1..rows |-> 0])])

(***************************************************************************)
(* Lines 613-649: the generator, the validation, the allocation and the    *)
(* split.                                                                  *)
(***************************************************************************)
Validated(e) ==
    IF e # "none"
    THEN /\ err' = e
         /\ pc' = "raised"
         /\ UNCHANGED locals
    ELSE /\ err' = "none"
         /\ pc' = "for"
         /\ spinsamples' = zeros(len(coords), n_rotate)
         /\ cost' = AsSeq([c \in 1..n_rotate |-> 0])
         /\ warned' = FALSE
         /\ UNCHANGED <<n, count, duplicated, spin, resampled, ccost>>

\* a validation placed after a first rotation has been drawn
ValidateAfterRotation ==
    /\ pc = "start"
    /\ IF check_random_state(seed) = None
       THEN np_random' = normal(np_random).state /\ rs' = None
       ELSE /\ rs' = Some(normal(check_random_state(seed)[1]).state)
            /\ np_random' = np_random
    /\ Validated(validation_error(coords, hemiid))
    /\ UNCHANGED <<others, args, warnings, draws, result, calls, previous>>

Validate ==
    /\ pc = "start"
    /\ rs' = check_random_state(seed)
    /\ Validated(validation_error(coords, hemiid))
    /\ UNCHANGED <<others, args, np_random, warnings, draws, result, calls, previous>>

(***************************************************************************)
(* Lines 650-652: the next column starts with count, duplicated = 0, True. *)
(***************************************************************************)
BeginColumn ==
    /\ pc = "for"
    /\ n < n_rotate
    /\ count' = 0
    /\ duplicated' = TRUE
    /\ pc' = "while"
    /\ UNCHANGED <<others, args, np_random, rs, err, spinsamples, cost, n, spin,
                   resampled, ccost, warned, warnings, draws, result, calls,
                   previous>>

\* a loop condition without the retry budget
looping_unbounded == duplicated

\* the loop condition of line 653
looping == duplicated /\ count < MaxAttempts

\* the generator the call draws from
generator == IF rs = None THEN np_random ELSE rs[1]

\* a duplicate check made whatever check_duplicates is
check_always(candidate_column) == is_duplicate(candidate_column, spinsamples, n)

\* `duplicated` after the duplicate check of lines 689-693
check(candidate_column) ==
    IF check_duplicates THEN is_duplicate(candidate_column, spinsamples, n)
    ELSE FALSE

(***************************************************************************)
(* Lines 653-693: one pass of `while duplicated and count < 500`: a        *)
(* rotation is drawn, the candidate column computed and checked.           *)
(***************************************************************************)
\* the candidate of the attempt is computed, checked and kept
Solve(c) ==
    /\ resampled' = c.resampled
    /\ ccost' = c.ccost
    /\ duplicated' = check(c.resampled)
    /\ UNCHANGED <<pc, err>>

\* the solver's library call raises
Raise(e) ==
    /\ err' = e
    /\ pc' = "raised"
    /\ duplicated' = FALSE
    /\ resampled' = AsSeq([i \in 1..len(coords) |-> 0])
    /\ UNCHANGED ccost

\* the draw advances numpy's global generator whatever the seed
advance_global(next) == np_random' = next /\ rs' = rs

\* the generator advances to the state `next`
Advance(next) ==
    IF rs = None THEN np_random' = next /\ rs' = rs
                 ELSE rs' = Some(next) /\ np_random' = np_random

Drawn(drawn) ==
    /\ Advance(drawn.state)
    /\ spin' = gen_rotation(drawn.value)
    /\ IF solver_error(coords) # "none"
       THEN Raise(solver_error(coords))
       ELSE Solve(candidate(coords, squeeze(astype_int(hemiid)), exact, drawn.value))

Attempt ==
    /\ pc = "while"
    /\ looping
    /\ count' = count + 1
    /\ draws' = draws + 1
    /\ Drawn(normal(generator))
    /\ UNCHANGED <<others, args, spinsamples, cost, n, warned, warnings, result, calls,
                   previous>>

\* a warning condition that forgets the `warned` flag
must_warn_every_time == count = MaxAttempts

\* the warning of lines 698-701 is due
must_warn == count = MaxAttempts /\ ~warned

\* a loop exit that raises when the retry budget is exhausted, and stores
\* the column otherwise
StoreOrRaise ==
    /\ pc = "while"
    /\ ~looping
    /\ IF duplicated
       THEN /\ err' = "ValueError"
            /\ pc' = "raised"
            /\ UNCHANGED <<spinsamples, cost, n>>
       ELSE /\ spinsamples' = [spinsamples EXCEPT ![n + 1] = resampled]
            /\ cost' = [cost EXCEPT ![n + 1] = ccost]
            /\ n' = n + 1
            /\ pc' = "for"
            /\ UNCHANGED err
    /\ UNCHANGED <<others, args, np_random, rs, count, duplicated, spin, resampled,
                   ccost, warned, warnings, draws, result, calls, previous>>

\* a store that fills the matrix from its last column backwards
StoreFromEnd ==
    /\ pc = "while"
    /\ ~looping
    /\ IF must_warn
       THEN warnings' = warnings + 1 /\ warned' = TRUE
       ELSE UNCHANGED <<warnings, warned>>
    /\ spinsamples' = [spinsamples EXCEPT ![n_rotate - n] = resampled]
    /\ cost' = [cost EXCEPT ![n_rotate - n] = ccost]
    /\ n' = n + 1
    /\ pc' = "for"
    /\ UNCHANGED <<others, args, np_random, rs, err, count, duplicated, spin,
                   resampled, ccost, draws, result, calls, previous>>

(***************************************************************************)
(* Lines 695-704: the loop is left; the warning, and the candidate and its *)
(* cost are stored in column n.                                            *)
(***************************************************************************)
Store ==
    /\ pc = "while"
    /\ ~looping
    /\ IF must_warn
       THEN warnings' = warnings + 1 /\ warned' = TRUE
       ELSE UNCHANGED <<warnings, warned>>
    /\ spinsamples' = [spinsamples EXCEPT ![n + 1] = resampled]
    /\ cost' = [cost EXCEPT ![n + 1] = ccost]
    /\ n' = n + 1
    /\ pc' = "for"
    /\ UNCHANGED <<others, args, np_random, rs, err, count, duplicated, spin,
                   resampled, ccost, draws, result, calls, previous>>

(***************************************************************************)
(* Line 706: return spinsamples, cost.                                     *)
(***************************************************************************)
Return ==
    /\ pc = "for"
    /\ n >= n_rotate
    /\ result' = Some([spinsamples |-> spinsamples, cost |-> cost])
    /\ pc' = "done"
    /\ calls' = calls + 1
    /\ UNCHANGED <<others, args, np_random, rs, err, locals, warnings, draws, previous>>

Next == Validate \/ BeginColumn \/ Attempt \/ Store \/ Return

Spec == Init /\ [][Next]_vars

(***************************************************************************)
(* A second call with the same arguments, after the first has returned.    *)
(* The global generator keeps its state, and so does a generator that the  *)
(* caller passes as seed; everything local starts afresh.                  *)
(***************************************************************************)
CallAgain ==
    /\ pc = "done"
    /\ calls = 1
    /\ previous' = result
    /\ result' = None
    /\ pc' = "start"
    /\ rs' = None
    /\ spinsamples' = << >>
    /\ cost' = << >>
    /\ n' = 0
    /\ count' = 0
    /\ duplicated' = FALSE
    /\ spin' = rotations(Eye)
    /\ resampled' = << >>
    /\ ccost' = 0
    /\ warned' = FALSE
    /\ warnings' = 0
    /\ draws' = 0
    /\ seed' = IF IsInstance(seed) THEN Instance(generator.seed, generator.pos)
                ELSE seed
    /\ UNCHANGED <<others, coords, hemiid, n_rotate, check_duplicates, exact,
                   np_random, err, calls>>

NextTwice == Next \/ CallAgain

SpecTwice == Init /\ [][NextTwice]_vars

(***************************************************************************)
(* A second call with the same arguments and integer seed but for a larger *)
(* n_rotate, after the first has returned.  The seeds are those of the     *)
(* streams that cycle and of the stream that repeats the identity draw.    *)
(***************************************************************************)
LongerSeeds == {Some(s) : s \in 0..NDraws}

InitLonger == Init /\ seed \in LongerSeeds

CallLonger ==
    /\ pc = "done"
    /\ calls = 1
    /\ IsInteger(seed)
    /\ \E longer \in (n_rotate + 1)..MaxRotate : n_rotate' = longer
    /\ previous' = result
    /\ result' = None
    /\ pc' = "start"
    /\ rs' = None
    /\ spinsamples' = << >>
    /\ cost' = << >>
    /\ n' = 0
    /\ count' = 0
    /\ duplicated' = FALSE
    /\ spin' = rotations(Eye)
    /\ resampled' = << >>
    /\ ccost' = 0
    /\ warned' = FALSE
    /\ warnings' = 0
    /\ draws' = 0
    /\ UNCHANGED <<others, coords, hemiid, check_duplicates, exact, seed,
                   np_random, err, calls>>

NextLonger == Next \/ CallLonger

SpecLonger == InitLonger /\ [][NextLonger]_vars

(***************************************************************************)
(* No call of gen_spinsamples: the state of its variables while one of the *)
(* other functions is called.                                              *)
(***************************************************************************)
NoSpinCall ==
    /\ coords = Array(<<4, 3>>, DocCoords)
    /\ hemiid = Labels(<<4>>, <<0, 0, 1, 1>>)
    /\ n_rotate = 0
    /\ check_duplicates = TRUE
    /\ exact = FALSE
    /\ seed = None
    /\ np_random = RandomState(0)
    /\ rs = None
    /\ pc = "idle"
    /\ err = "none"
    /\ Unset
    /\ warnings = 0
    /\ draws = 0
    /\ result = None
    /\ calls = 0
    /\ previous = None

(***************************************************************************)
(* utils.get_triu (utils.py lines 34-59).  A matrix is the sequence of its *)
(* rows.                                                                   *)
(***************************************************************************)
\* the pairs <<i, j>> of s in row-major order
RECURSIVE RowMajor(_)
RowMajor(s) ==
    IF s = {} THEN << >>
    ELSE LET first == CHOOSE p \in s : \A q \in s :
                          p[1] < q[1] \/ (p[1] = q[1] /\ p[2] <= q[2])
         IN  <<first>> \o RowMajor(s \ {first})

\* np.triu_indices(size, k): the indices (from 0) of the elements on and
\* above the k-th diagonal of a size x size matrix, in row-major order
triu_indices(size, k) ==
    RowMajor({p \in (0..(size - 1)) \X (0..(size - 1)) : p[2] - p[1] >= k})

\* data[indices], for index pairs from 0
take(data, indices) ==
    AsSeq([e \in 1..Len(indices) |-> data[indices[e][1] + 1][indices[e][2] + 1]])

\* get_triu(data, k): line 59 passes k=1 to np.triu_indices whatever k is
get_triu(data, k) == take(data, triu_indices(Len(data), 1))

\* the square matrices of 0s and 1s of side size
BinaryMatrices(size) == [1..size -> [1..size -> 0..1]]

TriuInputs ==
    BinaryMatrices(1) \cup BinaryMatrices(2) \cup
    { <<<<1, 2, 3>>, <<4, 5, 6>>, <<7, 8, 9>>>>,
      \* the matrix of the docstring's example, in hundredths
      <<<<100, 50, 25>>, <<50, 100, 33>>, <<25, 33, 100>>>>,
      <<<<1, 2, 3, 4>>, <<5, 6, 7, 8>>, <<9, 10, 11, 12>>, <<13, 14, 15, 16>>>> }

\* the diagonals asked for
DiagonalInputs == -2..3

InitTriu ==
    /\ NoSpinCall
    /\ permtest = Idle
    /\ triu \in {[pc |-> "start", data |-> d, k |-> k] :
                    d \in TriuInputs, k \in DiagonalInputs}

GetTriu ==
    /\ triu.pc = "start"
    /\ triu' = [pc |-> "done", data |-> triu.data, k |-> triu.k,
                result |-> get_triu(triu.data, triu.k)]
    /\ UNCHANGED <<args, np_random, rs, pc, err, locals, warnings, draws,
                   result, calls, previous, permtest>>

NextTriu == GetTriu

SpecTriu == InitTriu /\ [][NextTriu]_vars

(***************************************************************************)
(* The permutation tests (stats.py lines 148-420).  A statistic is kept    *)
(* exactly: a mean as the pair sum / count, a correlation as c / sqrt(v)   *)
(* with c = n * sum(xy) - sum(x) * sum(y) and v the product of the same    *)
(* expression for (x, x) and (y, y); v = 0 is the nan of a constant        *)
(* sample.  A comparison with nan is false.                                *)
(***************************************************************************)
np_abs(x) == IF x < 0 THEN -x ELSE x

\* values.mean()
Mean(values) == [num |-> SumSeq(values), den |-> Len(values)]

\* np.abs(x) >= np.abs(y) for two means
mean_abs_geq(x, y) == np_abs(x.num) * y.den >= np_abs(y.num) * x.den

\* the elementwise product of two sequences
Products(x, y) == AsSeq([i \in 1..Len(x) |-> x[i] * y[i]])

\* n * sum(xy) - sum(x) * sum(y)
CrossSum(x, y) == Len(x) * SumSeq(Products(x, y)) - SumSeq(x) * SumSeq(y)

\* efficient_pearsonr(a, b)[0] for two 1-D samples of one length: the sum
\* of the products of the z-scores over n - 1
efficient_pearsonr(x, y) ==
    [c |-> CrossSum(x, y), v |-> CrossSum(x, x) * CrossSum(y, y)]

\* np.abs(x) >= np.abs(y) for two correlations
corr_abs_geq(x, y) ==
    /\ x.v # 0
    /\ y.v # 0
    /\ x.c * x.c * y.v >= y.c * y.c * x.v

\* a.size
size(a) == ProdSeq(a.shape)

\* a.shape[axis], for an axis counted from the front or (negative) from the
\* back
shape_at(a, axis) == a.shape[IF axis < 0 THEN ndim(a) + axis + 1 ELSE axis + 1]

\* a[ix] for a 1-D a and a sequence ix of indices from 0
reindexed(values, ix) == AsSeq([i \in 1..Len(ix) |-> values[ix[i] + 1]])

\* zeroed = a - popmean
zeroed(a, popmean) == AsSeq([i \in 1..Len(a.data) |-> a.data[i] - popmean])

\* the outcomes of rs.choice([-1, 1], size=length)
SignChoices(length) == [1..length -> {-1, 1}]

\* the outcomes of rs.permutation(length)
Shuffles(length) == Orderings(0..(length - 1))


(***************************************************************************)
(* permtest_rel: the arrays.  a and b are 1-D or 2-D; ab stacks them and,  *)
(* for 1-D input, gets a last axis of length 1, so ab[j][i][m] is entry    *)
(* (i, m) of a (j = 1) or of b (j = 2).                                    *)
(***************************************************************************)
RowCount(a) == a.shape[1]
ColCount(a) == IF ndim(a) = 1 THEN 1 ELSE a.shape[2]

\* the entries of the array as a sequence of rows
Rows(a) ==
    AsSeq([i \in 1..RowCount(a) |->
              AsSeq([m \in 1..ColCount(a) |->
                        a.data[(i - 1) * ColCount(a) + m]])])

\* np.stack([a, b], axis=0), with np.expand_dims(ab, axis=-1) for 1-D input
stacked(a, b) == <<Rows(a), Rows(b)>>

\* np.diff(ab, axis=0): the array of shape (1, N, M) of the b - a
diff(ab) ==
    [shape |-> <<1, Len(ab[1]), Len(ab[1][1])>>,
     data  |-> AsSeq([e \in 1..(Len(ab[1]) * Len(ab[1][1])) |->
                  ab[2][((e - 1) \div Len(ab[1][1])) + 1]
                       [((e - 1) % Len(ab[1][1])) + 1]
                - ab[1][((e - 1) \div Len(ab[1][1])) + 1]
                       [((e - 1) % Len(ab[1][1])) + 1]])]

\* the exception of d.mean(axis=axis): the axis must be one of d's
mean_error(d, axis) ==
    IF axis >= ndim(d) \/ axis < -ndim(d) THEN "AxisError" ELSE "none"

\* d.mean(axis=axis) for a 1-D or 2-D array d, as a sequence of means
mean_along(d, axis) ==
    IF ndim(d) = 1 THEN <<Mean(d.data)>>
    ELSE IF (IF axis < 0 THEN axis + 2 ELSE axis) = 0
    THEN AsSeq([c \in 1..d.shape[2] |->
                   Mean(AsSeq([r \in 1..d.shape[1] |->
                                  d.data[(r - 1) * d.shape[2] + c]]))])
    ELSE AsSeq([r \in 1..d.shape[1] |->
                   Mean(AsSeq([c \in 1..d.shape[2] |->
                                  d.data[(r - 1) * d.shape[2] + c]]))])

\* np.squeeze(np.diff(ab, axis=0))
squeezed_diff(ab) == squeeze(diff(ab))

\* the outcomes of rs.random_sample(ab.shape[:-1]).argsort(axis=axis): the
\* sample has shape (2, N); sorted along its first axis every column is an
\* ordering of 0, 1, sorted along its second axis each of the two rows is
\* an ordering of 0..N-1
SwapOutcomes(length, axis) ==
    IF (IF axis < 0 THEN axis + 2 ELSE axis) = 0
    THEN {sw \in [1..2 -> [1..length -> 0..1]] :
             \A i \in 1..length : sw[1][i] # sw[2][i]}
    ELSE [1..2 -> Shuffles(length)]

\* ab[tuple(reidx)] raises when an index of the first axis is not 0 or 1
reindex_error(swap) ==
    IF \E j \in 1..2 : \E i \in 1..Len(swap[j]) : swap[j][i] >= 2
    THEN "IndexError" ELSE "none"

\* ab[tuple(reidx)]: entry (j, i, m) is ab[swap[j, i], i, m]
swapped(ab, swap) ==
    AsSeq([j \in 1..2 |->
        AsSeq([i \in 1..Len(ab[1]) |->
            AsSeq([m \in 1..Len(ab[1][1]) |-> ab[swap[j][i] + 1][i][m]])])])


(***************************************************************************)
(* A call of a permutation test.  nulls, outcomes and samples keep, for    *)
(* every permutation made, the null statistic, what the generator gave and *)
(* the null sample; the code keeps none of them.                           *)
(***************************************************************************)
Call(func, a, b, axis, n_perm, resamples) ==
    [func |-> func, a |-> a, b |-> b, axis |-> axis, n_perm |-> n_perm,
     resamples |-> resamples,
     pc |-> "start", err |-> "none", perm |-> 0,
     observed |-> << >>, permutations |-> << >>,
     nulls |-> << >>, outcomes |-> << >>, samples |-> << >>,
     result |-> None]

\* the call raises e
raised(call, e) == [call EXCEPT !.pc = "raised", !.err = e]

\* return np.nan, np.nan
returned_nan(call) == [call EXCEPT !.pc = "done", !.result = Some([nan |-> TRUE])]

\* the observed statistic is computed and permutations = np.ones(shape)
entered(call, stat) ==
    [call EXCEPT !.pc = "loop", !.observed = stat,
                 !.permutations = AsSeq([k \in 1..Len(stat) |-> 1])]

\* permtest_1samp, lines 211-228; b is popmean, which _chk2_asarray made
\* an array of one entry
start_1samp(call) ==
    IF size(call.a) = 0 THEN returned_nan(call)
    ELSE entered(call, <<Mean(zeroed(call.a, call.b.data[1]))>>)

\* permtest_rel, lines 289-308
start_rel(call) ==
    IF shape_at(call.a, call.axis) # shape_at(call.b, call.axis)
    THEN raised(call, "ValueError")
    ELSE IF size(call.a) = 0 \/ size(call.b) = 0 THEN returned_nan(call)
    ELSE IF mean_error(squeezed_diff(stacked(call.a, call.b)), call.axis) # "none"
    THEN raised(call, mean_error(squeezed_diff(stacked(call.a, call.b)), call.axis))
    ELSE entered(call, mean_along(squeezed_diff(stacked(call.a, call.b)), call.axis))

\* the exception of lines 400-403: resamples.shape is read from the
\* argument as it was passed, and a list has no attribute shape
resamples_error(resamples, n_perm) ==
    IF resamples = None THEN "none"
    ELSE IF resamples[1].kind = "list" THEN "AttributeError"
    ELSE IF n_perm > resamples[1].cols THEN "ValueError"
    ELSE "none"

\* permtest_pearsonr, lines 391-409, for 1-D a and b
start_pearsonr(call) ==
    IF len(call.a) # len(call.b) THEN raised(call, "ValueError")
    ELSE IF size(call.a) = 0 \/ size(call.b) = 0 THEN returned_nan(call)
    ELSE IF resamples_error(call.resamples, call.n_perm) # "none"
    THEN raised(call, resamples_error(call.resamples, call.n_perm))
    ELSE entered(call, <<efficient_pearsonr(call.a.data, call.b.data)>>)

\* permutations += np.abs(null) >= np.abs(observed), for means
hits_mean(null, observed) ==
    AsSeq([k \in 1..Len(null) |->
              IF mean_abs_geq(null[k], observed[k]) THEN 1 ELSE 0])

\* the same for correlations
hits_corr(null, observed) ==
    AsSeq([k \in 1..Len(null) |->
              IF corr_abs_geq(null[k], observed[k]) THEN 1 ELSE 0])

\* one pass of the loop is over: the counters have taken the hits
counted(call, outcome, sample, null, hits) ==
    [call EXCEPT !.perm = @ + 1,
                 !.permutations = AsSeq([k \in 1..Len(@) |-> @[k] + hits[k]]),
                 !.nulls = Append(@, null),
                 !.outcomes = Append(@, outcome),
                 !.samples = Append(@, sample)]

\* one pass of the loop of permtest_1samp (lines 229-231) when rs.choice
\* gives signs
pass_1samp(call, signs) ==
    counted(call, signs,
            Products(zeroed(call.a, call.b.data[1]), signs),
            <<Mean(Products(zeroed(call.a, call.b.data[1]), signs))>>,
            hits_mean(<<Mean(Products(zeroed(call.a, call.b.data[1]), signs))>>,
                      call.observed))

\* one pass of the loop of permtest_rel (lines 309-315) when the argsort
\* gives swap
pass_rel(call, swap) ==
    IF reindex_error(swap) # "none" THEN raised(call, reindex_error(swap))
    ELSE counted(call, swap,
                 swapped(stacked(call.a, call.b), swap),
                 mean_along(squeezed_diff(swapped(stacked(call.a, call.b), swap)),
                            call.axis),
                 hits_mean(mean_along(squeezed_diff(
                               swapped(stacked(call.a, call.b), swap)), call.axis),
                           call.observed))

\* resamples[:, perm], perm from 0
column(resamples, perm) ==
    AsSeq([i \in 1..Len(resamples.rows) |-> resamples.rows[i][perm + 1]])

\* one pass of the loop of permtest_pearsonr (lines 410-416) with a
\* reindexed by ix
pass_pearsonr(call, ix) ==
    counted(call, ix,
            reindexed(call.a.data, ix),
            <<efficient_pearsonr(reindexed(call.a.data, ix), call.b.data)>>,
            hits_corr(<<efficient_pearsonr(reindexed(call.a.data, ix),
                                           call.b.data)>>,
                      call.observed))

\* a p-value that leaves out the observed statistic: counter / n_perm
pvals_unsmoothed(permutations, n_perm) ==
    AsSeq([k \in 1..Len(permutations) |->
              [num |-> permutations[k] - 1, den |-> n_perm]])

\* pvals = permutations / (n_perm + 1)
pvals(permutations, n_perm) ==
    AsSeq([k \in 1..Len(permutations) |->
              [num |-> permutations[k], den |-> n_perm + 1]])

\* return true_mean, pvals
returned(call) ==
    [call EXCEPT !.pc = "done",
                 !.result = Some([nan |-> FALSE, stat |-> call.observed,
                                  pvals |-> pvals(call.permutations, call.n_perm)])]


(***************************************************************************)
(* The calls of the permutation tests that are checked.                    *)
(***************************************************************************)
MaxPerm == 2

\* permtest_1samp(a, popmean, n_perm=n_perm)
Calls1samp ==
    {Call("1samp", a, Array(<<1>>, <<popmean>>), 0, n_perm, None) :
        a \in {Array(<<3>>, <<3, 4, 5>>), Array(<<2>>, <<1, -1>>),
               Array(<<0>>, << >>)},
        popmean \in {0, 2},
        n_perm \in 0..MaxPerm}

\* the pairs of samples and the axes given to permtest_rel
RelInputs ==
    {[a |-> Array(<<3>>, <<1, 2, 3>>), b |-> Array(<<3>>, <<2, 4, 7>>), axis |-> 0],
     [a |-> Array(<<3>>, <<1, 2, 3>>), b |-> Array(<<3>>, <<2, 4, 7>>), axis |-> -1],
     [a |-> Array(<<2>>, <<1, 2>>), b |-> Array(<<2>>, <<3, 6>>), axis |-> 0],
     [a |-> Array(<<2>>, <<1, 2>>), b |-> Array(<<2>>, <<3, 6>>), axis |-> -1],
     [a |-> Array(<<2, 2>>, <<1, 2, 3, 4>>),
      b |-> Array(<<2, 2>>, <<2, 4, 7, 12>>), axis |-> 0],
     [a |-> Array(<<2, 2>>, <<1, 2, 3, 4>>),
      b |-> Array(<<2, 2>>, <<2, 4, 7, 12>>), axis |-> 1],
     [a |-> Array(<<3, 2>>, <<1, 2, 3, 4, 5, 6>>),
      b |-> Array(<<3, 2>>, <<2, 4, 7, 12, 5, 6>>), axis |-> 0],
     [a |-> Array(<<3, 2>>, <<1, 2, 3, 4, 5, 6>>),
      b |-> Array(<<3, 2>>, <<2, 4, 7, 12, 5, 6>>), axis |-> 1],
     [a |-> Array(<<0>>, << >>), b |-> Array(<<0>>, << >>), axis |-> 0],
     [a |-> Array(<<3>>, <<1, 2, 3>>), b |-> Array(<<2>>, <<3, 6>>), axis |-> 0]}

\* permtest_rel(a, b, axis=axis, n_perm=n_perm)
CallsRel ==
    {Call("rel", i.a, i.b, i.axis, n_perm, None) :
        i \in RelInputs, n_perm \in 0..MaxPerm}

\* a resampling array of the kind given ("ndarray", or "list" for a list
\* of lists) with these rows
Resampling(kind, rows, cols) == Some([kind |-> kind, rows |-> rows, cols |-> cols])

\* the resamples given with samples of three entries
ResamplesInputs ==
    {None,
     Resampling("ndarray", <<<<2>>, <<0>>, <<1>>>>, 1),
     Resampling("ndarray", <<<<1, 0>>, <<0, 2>>, <<2, 1>>>>, 2),
     Resampling("ndarray", <<<<1, 0, 2>>, <<0, 2, 1>>, <<2, 1, 0>>>>, 3),
     Resampling("list", <<<<2>>, <<0>>, <<1>>>>, 1),
     Resampling("list", <<<<1, 0>>, <<0, 2>>, <<2, 1>>>>, 2)}

\* permtest_pearsonr(a, b, n_perm=n_perm, resamples=resamples)
CallsPearsonr ==
    {Call("pearsonr", Array(<<3>>, a), Array(<<3>>, b), 0, n_perm, r) :
        a \in {<<1, 2, 3>>, <<1, 2, 4>>},
        b \in {<<1, 3, 2>>, <<2, 2, 2>>},
        n_perm \in 0..MaxPerm,
        r \in ResamplesInputs}
    \cup {Call("pearsonr", Array(<<3>>, <<1, 2, 3>>), Array(<<2>>, <<1, 3>>),
               0, n_perm, None) : n_perm \in 0..MaxPerm}
    \cup {Call("pearsonr", Array(<<0>>, << >>), Array(<<0>>, << >>),
               0, n_perm, r) :
             n_perm \in 0..MaxPerm,
             r \in {None, Resampling("ndarray", << >>, 1)}}

InitPermtest ==
    /\ NoSpinCall
    /\ triu = Idle
    /\ permtest \in Calls1samp \cup CallsRel \cup CallsPearsonr

\* the statements up to the loop: the checks of the arguments and the
\* observed statistic
PermStart ==
    /\ permtest.pc = "start"
    /\ permtest' = CASE permtest.func = "1samp" -> start_1samp(permtest)
                     [] permtest.func = "rel" -> start_rel(permtest)
                     [] permtest.func = "pearsonr" -> start_pearsonr(permtest)
    /\ UNCHANGED <<args, np_random, rs, pc, err, locals, warnings, draws,
                   result, calls, previous, triu>>

Step1samp ==
    /\ permtest.pc = "loop"
    /\ permtest.func = "1samp"
    /\ permtest.perm < permtest.n_perm
    /\ \E signs \in SignChoices(len(permtest.a)) :
          permtest' = pass_1samp(permtest, signs)
    /\ UNCHANGED <<args, np_random, rs, pc, err, locals, warnings, draws,
                   result, calls, previous, triu>>

StepRel ==
    /\ permtest.pc = "loop"
    /\ permtest.func = "rel"
    /\ permtest.perm < permtest.n_perm
    /\ \E swap \in SwapOutcomes(RowCount(permtest.a), permtest.axis) :
          permtest' = pass_rel(permtest, swap)
    /\ UNCHANGED <<args, np_random, rs, pc, err, locals, warnings, draws,
                   result, calls, previous, triu>>

StepPearsonr ==
    /\ permtest.pc = "loop"
    /\ permtest.func = "pearsonr"
    /\ permtest.perm < permtest.n_perm
    /\ \E ix \in (IF permtest.resamples = None
                   THEN Shuffles(len(permtest.a))
                   ELSE {column(permtest.resamples[1], permtest.perm)}) :
          permtest' = pass_pearsonr(permtest, ix)
    /\ UNCHANGED <<args, np_random, rs, pc, err, locals, warnings, draws,
                   result, calls, previous, triu>>

\* the loop is over: pvals is computed and returned
PermReturn ==
    /\ permtest.pc = "loop"
    /\ permtest.perm = permtest.n_perm
    /\ permtest' = returned(permtest)
    /\ UNCHANGED <<args, np_random, rs, pc, err, locals, warnings, draws,
                   result, calls, previous, triu>>

NextPermtest ==
    \/ PermStart
    \/ Step1samp
    \/ StepRel
    \/ StepPearsonr
    \/ PermReturn

SpecPermtest == InitPermtest /\ [][NextPermtest]_vars

(***************************************************************************)
(* Properties.                                                             *)
(***************************************************************************)
\* the hemisphere labels as the call sees them, and their number N
SqueezedLabelsShape == SelectSeq(hemiid.shape, LAMBDA d : d # 1)
labels == astype_int(hemiid).data
NPoints == Len(labels)

\* the positions (from 0) labelled h
PositionsOf(h) == {i \in 0..(NPoints - 1) : labels[i + 1] = h}

\* the identity mapping 0..N-1
IdentityColumn == [i \in 1..NPoints |-> i - 1]

\* the labels as given are 0s and 1s, with both among them
ZerosAndOnes ==
    /\ \A i \in 1..NPoints : hemiid.data[i] \in {0, hemiid.unit}
    /\ \E i \in 1..NPoints : hemiid.data[i] = 0
    /\ \E i \in 1..NPoints : hemiid.data[i] = hemiid.unit

\* coords is N points and hemiid N labels with both 0 and 1 among them
ValidInput ==
    /\ Len(coords.shape) = 2
    /\ coords.shape[2] = 3
    /\ Len(SqueezedLabelsShape) = 1
    /\ coords.shape[1] = NPoints
    /\ ZerosAndOnes

\* the call has passed validation and raised nothing
Running == pc \in {"for", "while", "done"}

\* the matrix m (a sequence of columns) has N rows and n_rotate columns
Complete(m) ==
    /\ Len(m) = n_rotate
    /\ \A c \in 1..n_rotate : Len(m[c]) = NPoints

\* C1: for valid input the call raises nothing, and what it returns is a
\* matrix of N rows and n_rotate columns with a cost vector of n_rotate
\* entries, whatever the flags and the number of rejected attempts.
C1_ResultShape ==
    /\ ValidInput => pc # "raised"
    /\ pc = "done" =>
          /\ Complete(result[1].spinsamples)
          /\ Len(result[1].cost) = n_rotate

C1_Witness ==
    /\ pc = "done"
    /\ ValidInput
    /\ n_rotate >= 2
    /\ draws > n_rotate

\* the column lists every index of each hemisphere exactly once at the
\* positions of that hemisphere, and is a permutation of 0..N-1
ColumnIsBijection(col) ==
    /\ \A h \in {0, 1} :
          \A j \in PositionsOf(h) :
              Cardinality({i \in PositionsOf(h) : col[i + 1] = j}) = 1
    /\ \A j \in 0..(NPoints - 1) :
          Cardinality({i \in 1..NPoints : col[i] = j}) = 1

\* C2: with exact=True every column stored, and every column returned, is
\* a bijection within each hemisphere, columns stored on an exhausted retry
\* budget included.
C2_ExactBijection ==
    (exact /\ Running) =>
        /\ \A c \in 1..n : ColumnIsBijection(spinsamples[c])
        /\ pc = "done" =>
              \A c \in 1..n_rotate : ColumnIsBijection(result[1].spinsamples[c])

C2_Witness ==
    /\ pc = "done"
    /\ exact
    /\ n_rotate >= 2
    /\ warnings = 1
    /\ \E c \in 1..n_rotate : result[1].spinsamples[c] # IdentityColumn

\* C3: in both modes every entry of every stored column is an index in
\* 0..N-1 carrying the same label as the position it is stored at.
C3_HemisphereSeparation ==
    Running =>
        \A c \in 1..n : \A i \in 1..NPoints :
            /\ spinsamples[c][i] \in 0..(NPoints - 1)
            /\ labels[spinsamples[c][i] + 1] = labels[i]

C3_Witness ==
    /\ pc = "done"
    /\ ~exact
    /\ labels[1] # labels[2]
    /\ \E c \in 1..n_rotate : \E i, j \in 1..NPoints :
          i # j /\ spinsamples[c][i] = spinsamples[c][j]

\* C4: a second call with the same arguments and the same integer seed
\* returns the matrix and the cost vector the first call returned.
C4_Determinism ==
    (pc = "done" /\ calls = 2 /\ IsInteger(seed)) => result = previous

C4_Witness ==
    /\ pc = "done"
    /\ calls = 2
    /\ IsInteger(seed)
    /\ check_duplicates
    /\ n_rotate >= 2
    /\ draws > n_rotate
    /\ result = previous

\* the column differs from the identity mapping and from the columns stored
Fresh(col) ==
    /\ col # IdentityColumn
    /\ \A c \in 1..n : spinsamples[c] # col

\* C5: with check_duplicates=True a column accepted after fewer than 500
\* attempts differs from the identity mapping and from every column stored
\* before it; and the columns of a call that has emitted no warning are
\* pairwise different and none is the identity mapping.
C5_DuplicateAvoidance ==
    check_duplicates =>
        /\ (pc = "while" /\ ~duplicated /\ count >= 1 /\ count < MaxAttempts)
              => Fresh(resampled)
        /\ (pc = "done" /\ warnings = 0) =>
              /\ \A c \in 1..n_rotate :
                    result[1].spinsamples[c] # IdentityColumn
              /\ \A c, d \in 1..n_rotate :
                    c # d => result[1].spinsamples[c] # result[1].spinsamples[d]

C5_Witness ==
    /\ pc = "done"
    /\ check_duplicates
    /\ warnings = 0
    /\ n_rotate >= 2
    /\ draws > n_rotate

\* all 500 attempts for the column were rejected
Exhausted == pc = "while" /\ duplicated /\ count = MaxAttempts

\* C6: when all 500 attempts for a column were rejected the call raises
\* nothing: its next step stores the candidate of the 500th attempt and its
\* cost in the column, a warning has then been emitted, and the call goes
\* on; a call that has warned never raises and returns a complete matrix.
C6_ExhaustionNonFatal ==
    /\ [][Exhausted =>
            /\ pc' = "for"
            /\ err' = "none"
            /\ n' = n + 1
            /\ spinsamples'[n + 1] = resampled
            /\ cost'[n + 1] = ccost
            /\ warned'
            /\ warnings' >= 1]_vars
    /\ [](warnings >= 1 => pc # "raised")
    /\ []((pc = "done" /\ warnings >= 1) => Complete(result[1].spinsamples))

C6_Witness ==
    /\ pc = "done"
    /\ n_rotate >= 2
    /\ warnings = 1
    /\ draws = MaxAttempts + 1
    /\ result[1].spinsamples[1] = IdentityColumn
    /\ result[1].spinsamples[2] # IdentityColumn

\* C7: a call emits the duplicate-rotation warning at most once, however
\* many of its columns exhaust the retry budget.
C7_WarnedOnce == warnings <= 1

C7_Witness ==
    /\ pc = "done"
    /\ n_rotate = 2
    /\ draws = 2 * MaxAttempts
    /\ warnings = 1

\* C8: with check_duplicates=False no candidate is rejected, one rotation
\* is generated per column, n_rotate in all, and no warning is emitted.
C8_UncheckedAcceptsFirst ==
    (~check_duplicates /\ Running) =>
        /\ warnings = 0
        /\ count <= 1
        /\ (pc = "while" /\ count = 1) => ~duplicated
        /\ draws = n + (IF pc = "while" THEN count ELSE 0)
        /\ pc = "done" => draws = n_rotate

C8_Witness ==
    /\ pc = "done"
    /\ ~check_duplicates
    /\ n_rotate >= 2
    /\ result[1].spinsamples[1] = IdentityColumn
    /\ result[1].spinsamples[2] = result[1].spinsamples[1]

\* an upper bound on the steps the call has yet to take
Remaining ==
    CASE pc = "start" -> n_rotate * (MaxAttempts + 2) + 2
      [] pc = "for"   -> (n_rotate - n) * (MaxAttempts + 2) + 1
      [] pc = "while" -> (n_rotate - n) * (MaxAttempts + 2) - count
      [] OTHER        -> 0

\* the call has a next step: another attempt of the retry loop, whose only
\* condition is the loop's, or one of the other steps
CanStep ==
    \/ pc = "while" /\ looping
    \/ ENABLED (Validate \/ BeginColumn \/ Store \/ Return)

\* C9: every call ends, by returning or raising: until then the call has a
\* next step, and every step lowers the bound Remaining on the steps still
\* to come, which never falls below 0; each column takes at least 1 and at
\* most 500 attempts, so that a call generates at most 500 * n_rotate
\* rotations.
C9_Termination ==
    /\ [](count <= MaxAttempts /\ draws <= MaxAttempts * n_rotate)
    /\ [][(pc = "while" /\ pc' = "for") => (count >= 1 /\ count <= MaxAttempts)]_vars
    /\ [](pc \in {"done", "raised"} \/ CanStep)
    /\ [](Remaining >= 0)
    /\ [][Remaining' < Remaining]_vars

C9_Witness ==
    /\ pc = "done"
    /\ check_duplicates
    /\ n_rotate >= 2
    /\ draws = MaxAttempts * n_rotate
    /\ \A c \in 1..n_rotate : result[1].spinsamples[c] = IdentityColumn

\* the shape of coords with its dimensions of length 1 dropped
SqueezedCoordsShape == SelectSeq(coords.shape, LAMBDA d : d # 1)

\* C10: for every coords whose squeezed shape is not (N, 3) the call raises
\* ValueError and returns nothing.
C10_BadShapeRaisesValueError ==
    (pc # "start" /\ ~(Len(SqueezedCoordsShape) = 2 /\ SqueezedCoordsShape[2] = 3))
        => (pc = "raised" /\ err = "ValueError" /\ result = None)


\* coords has more than two dimensions, and the shape (N, 3) once its
\* dimensions of length 1 are dropped
SqueezableCoords ==
    /\ Len(coords.shape) > 2
    /\ Len(SqueezedCoordsShape) = 2
    /\ SqueezedCoordsShape[2] = 3

\* C11: given coords of shape (N, 3) only after squeezing, and N valid
\* labels, the call raises nothing and returns a matrix of N rows and
\* n_rotate columns.
C11_SqueezableCoordsAccepted ==
    (/\ pc # "start"
     /\ SqueezableCoords
     /\ Len(SqueezedLabelsShape) = 1
     /\ NPoints = SqueezedCoordsShape[1]
     /\ ZerosAndOnes)
        => /\ pc # "raised"
           /\ pc = "done" => Complete(result[1].spinsamples)

\* coords passes the shape check of the call
CoordsAccepted ==
    /\ Len(coords.shape) >= 1
    /\ coords.shape[Len(coords.shape)] = 3
    /\ Len(SqueezedCoordsShape) = 2

\* C12: once coords has passed its shape check, the call raises ValueError
\* whenever the squeezed labels are not one-dimensional or their length is
\* not the number N of coordinates; labels of shape (N, 1) or (1, N) that
\* are otherwise valid are taken as N labels and raise nothing.
C12_LabelShape ==
    (pc # "start" /\ CoordsAccepted) =>
        /\ (\/ Len(SqueezedLabelsShape) # 1
            \/ SqueezedLabelsShape[1] # SqueezedCoordsShape[1])
              => (pc = "raised" /\ err = "ValueError" /\ result = None)
        /\ (/\ Len(hemiid.shape) = 2
            /\ Len(SqueezedLabelsShape) = 1
            /\ ValidInput)
              => pc # "raised"

C12_Witness ==
    /\ pc = "raised"
    /\ err = "ValueError"
    /\ CoordsAccepted
    /\ Len(SqueezedLabelsShape) = 1
    /\ SqueezedLabelsShape[1] # SqueezedCoordsShape[1]
    /\ ZerosAndOnes

\* C13: once coords and the shape of the labels have passed their checks,
\* the call raises ValueError whenever the label values as given are not
\* exactly 0 and 1 with both present.
C13_LabelDomain ==
    (/\ pc # "start"
     /\ CoordsAccepted
     /\ Len(coords.shape) = 2
     /\ Len(SqueezedLabelsShape) = 1
     /\ SqueezedLabelsShape[1] = coords.shape[1]
     /\ ~ZerosAndOnes)
        => (pc = "raised" /\ err = "ValueError" /\ result = None)



\* an attempt has been made for column n: spin, resampled and ccost are
\* its rotations, its candidate and its cost
Attempted == pc = "while" /\ count >= 1

\* point i (from 1), and its coordinate rotated by the rotation of its
\* hemisphere
Point(i) == Row(coords, i - 1)
Spun(i) == VecMat(Point(i), IF labels[i] = 0 THEN spin.left ELSE spin.right)

\* the points of the hemisphere of point i
SameSide(i) == {j \in 1..NPoints : labels[j] = labels[i]}

\* the distance from point i to the rotated coordinate of its donor in col
DonorDistance(col, i) == Distance(Point(i), Spun(col[i] + 1))

\* the sum over all points of the distances to their donors in col
TotalDistance(col) == SumSeq([i \in 1..NPoints |-> DonorDistance(col, i)])

\* C14: with exact=False the donor of every point i is a point of the
\* hemisphere of i whose rotated coordinate is nearest to the un-rotated
\* coordinate of i, and the cost of the candidate is the sum over all points
\* of these least distances.
C14_NearestDonor ==
    (~exact /\ Attempted) =>
        /\ \A i \in 1..NPoints :
              /\ resampled[i] + 1 \in SameSide(i)
              /\ \A j \in SameSide(i) :
                    DonorDistance(resampled, i) <= Distance(Point(i), Spun(j))
        /\ ccost = TotalDistance(resampled)

\* two points share a donor, at a cost above 0
C14_Witness ==
    /\ ~exact
    /\ Attempted
    /\ ccost > 0
    /\ \E i, j \in 1..NPoints : i # j /\ resampled[i] = resampled[j]
    /\ \E i \in 1..NPoints : resampled[i] # i - 1



\* the one-to-one assignments of donors among the points S
AssignmentsOf(S) == {b \in [S -> S] : \A j \in S : \E i \in S : b[i] = j}

\* D[i][j]: the distance from point i to the rotated coordinate of point j
\* of the same hemisphere (0 for a point of the other)
SpunDistances ==
    AsSeq([i \in 1..NPoints |->
              AsSeq([j \in 1..NPoints |->
                        IF labels[i] = labels[j]
                        THEN Distance(Point(i), Spun(j)) ELSE 0])])

\* the total distance, by the table D, from the points S to the rotated
\* coordinates of the donors that b gives them
AssignedDistance(D, b, S) ==
    SumSeq([i \in 1..Len(D) |-> IF i \in S THEN D[i][b[i]] ELSE 0])

\* the donors (from 1) of the candidate
Donors == [i \in 1..NPoints |-> resampled[i] + 1]

\* C15: with exact=True the donors of each hemisphere are a bijection of
\* its points, no bijection of them has a smaller total distance, and the
\* cost of the candidate is the sum of the assigned distances over both
\* hemispheres.
C15_OptimalAssignment ==
    (exact /\ Attempted) =>
        /\ ColumnIsBijection(resampled)
        /\ \A D \in {SpunDistances} :
              \A h \in {0, 1} :
                  \A S \in {{i \in 1..NPoints : labels[i] = h}} :
                      \A b \in AssignmentsOf(S) :
                          AssignedDistance(D, Donors, S)
                              <= AssignedDistance(D, b, S)
        /\ ccost = TotalDistance(resampled)

\* an assignment in which some point does not get its nearest donor
C15_Witness ==
    /\ exact
    /\ Attempted
    /\ ccost > 0
    /\ \E i \in 1..NPoints : \E j \in SameSide(i) :
          Distance(Point(i), Spun(j)) < DonorDistance(resampled, i)



\* C16: the cost of every attempt is the sum over all positions of the
\* distance from the point to the rotated coordinate of its donor under the
\* rotation of that attempt, and is never negative; leaving the retry loop
\* stores the candidate and the cost of the last attempt together in
\* column n; columns stored stay as they are, and are what is returned.
C16_CostOfStoredCandidate ==
    /\ [](Attempted => (ccost = TotalDistance(resampled) /\ ccost >= 0))
    /\ [][(pc = "while" /\ pc' = "for") =>
            /\ spinsamples'[n + 1] = resampled
            /\ cost'[n + 1] = ccost
            /\ \A c \in 1..n : /\ spinsamples'[c] = spinsamples[c]
                               /\ cost'[c] = cost[c]]_vars
    /\ [][pc = "while" => (spinsamples' = spinsamples /\ cost' = cost)
                          \/ pc' = "for"]_vars
    /\ [](pc = "done" => /\ result[1].spinsamples = spinsamples
                         /\ result[1].cost = cost
                         /\ \A c \in 1..n_rotate : cost[c] >= 0)

\* a column stored after rejected attempts, at a cost above 0
C16_Witness ==
    /\ pc = "done"
    /\ n_rotate >= 2
    /\ draws > n_rotate
    /\ draws < MaxAttempts
    /\ \A c \in 1..n_rotate : result[1].cost[c] > 0



\* a rotation has been generated: spin is the pair that _gen_rotation
\* returned last
Generated == draws >= 1

\* the mirror image of the point p: its x coordinate negated
Mirror(p) == <<-p[1], p[2], p[3]>>

\* the sign that the reflection gives axis i
MirrorSign(i) == IF i = 1 THEN -1 ELSE 1

\* points that span the space
SamplePoints == {<<1, 0, 0>>, <<0, 1, 0>>, <<0, 0, 1>>, <<-2, 1, 2>>}

\* C17: the right rotation is the left one conjugated by the reflection
\* that negates the x axis: entry (i, j) of right is entry (i, j) of left
\* with the signs of axes i and j, and rotating the mirror image of a point
\* by right gives the mirror image of the point rotated by left.
C17_MirroredRotation ==
    Generated =>
        /\ \A i, j \in 1..3 :
              spin.right[i][j] = MirrorSign(i) * MirrorSign(j) * spin.left[i][j]
        /\ \A p \in SamplePoints :
              VecMat(Mirror(p), spin.right) = Mirror(VecMat(p, spin.left))

C17_Witness ==
    /\ Generated
    /\ spin.left # Eye
    /\ spin.right # spin.left

\* the transpose of a 3x3 matrix
Transposed(A) ==
    << <<A[1][1], A[2][1], A[3][1]>>,
       <<A[1][2], A[2][2], A[3][2]>>,
       <<A[1][3], A[2][3], A[3][3]>> >>

\* A is orthogonal with determinant +1
ProperRotation(A) == MatMul(A, Transposed(A)) = Eye /\ Det(A) = 1

\* the matrix that rs.normal returned last
LastDrawn ==
    NormalDraws[StreamDraw(generator.seed, generator.pos - 1)]

\* column c of B is column c of A negated, and the other columns are equal
NegatedColumn(A, B, c) ==
    \A i, j \in 1..3 : B[i][j] = (IF j = c THEN -A[i][j] ELSE A[i][j])

\* C18: both matrices returned are proper rotations, orthogonal with
\* determinant +1; the left one is the orthogonalised matrix when that has
\* determinant +1, and the orthogonalised matrix with exactly one column
\* negated when it has determinant -1.
C18_ProperRotations ==
    Generated =>
        /\ ProperRotation(spin.left)
        /\ ProperRotation(spin.right)
        /\ \A O \in {sign_fixed(QR(LastDrawn))} :
              /\ Det(O) \in {1, -1}
              /\ Det(O) = 1 => spin.left = O
              /\ Det(O) = -1 =>
                    Cardinality({c \in 1..3 : NegatedColumn(O, spin.left, c)}) = 1

\* the orthogonalised matrix of the last draw was a reflection
C18_Witness ==
    /\ Generated
    /\ Det(sign_fixed(QR(LastDrawn))) = -1
    /\ spin.left # Eye



\* the step is an attempt of the retry loop
AttemptStep == pc = "while" /\ count' = count + 1

\* C19: every attempt, and no other step, draws from the generator of the
\* call, once: the generator moves on by one draw and the number of
\* rotations generated by one, while the column stays the same; the columns
\* are filled in order, so the draws of column n come before those of
\* column n + 1; the generator has made as many draws since the call began
\* as attempts were made, and with a seed given the global generator is
\* never drawn from.
C19_DrawOrder ==
    /\ [][AttemptStep =>
            /\ generator'.seed = generator.seed
            /\ generator'.pos = generator.pos + 1
            /\ draws' = draws + 1
            /\ n' = n]_vars
    /\ [][~AttemptStep =>
            /\ draws' = draws
            /\ count' \in {count, 0}
            /\ pc # "start" => generator' = generator]_vars
    /\ [][n' \in {n, n + 1} /\ draws' >= draws]_vars
    /\ [](pc # "start" =>
             generator.pos = (IF IsInstance(seed) THEN seed[2] ELSE 0) + draws)
    /\ [](seed # None => np_random.pos = 0)

C19_Witness ==
    /\ pc = "done"
    /\ seed # None
    /\ n_rotate >= 2
    /\ draws > n_rotate
    /\ draws < MaxAttempts
    /\ generator.pos = draws



\* the points are pairwise different
DistinctPoints == \A i, j \in 1..NPoints : i # j => Point(i) # Point(j)

\* every point lies on the rotated coordinate of its donor
OnDonors == \A i \in 1..NPoints : Point(i) = Spun(resampled[i] + 1)

\* C20 as stated: the cost of an attempt is 0 when its rotation is the
\* identity, and above 0 for every other rotation when the points are
\* pairwise different.
C20_CostSanity ==
    Attempted =>
        /\ spin.left = Eye => ccost = 0
        /\ (spin.left # Eye /\ DistinctPoints) => ccost > 0

\* C20 amended: the cost of an attempt is never negative and is 0 when its
\* rotation is the identity; it is 0 exactly when every point lies on the
\* rotated coordinate of its donor, which with exact=False is when every
\* point lies on the rotated coordinate of some point of its hemisphere, so
\* a rotation other than the identity that maps the points of each
\* hemisphere onto themselves costs 0 as well.
C20_ZeroCostIffOnDonors ==
    Attempted =>
        /\ ccost >= 0
        /\ spin.left = Eye => ccost = 0
        /\ ccost = 0 <=> OnDonors
        /\ ~exact =>
              (ccost = 0 <=>
                  \A i \in 1..NPoints : \E j \in SameSide(i) : Point(i) = Spun(j))

\* a rotation other than the identity, of pairwise different points, at
\* cost 0
C20_Witness ==
    /\ Attempted
    /\ spin.left # Eye
    /\ DistinctPoints
    /\ ccost = 0
    /\ OnDonors
    /\ \E i \in 1..NPoints : resampled[i] # i - 1



\* the elements of the matrix m on and above its k-th diagonal, row by row
OnOrAbove(m, k) ==
    LET side == Len(m)
        kept(i) == SelectSeq([j \in 1..side |-> j], LAMBDA j : j - i >= k)
        row(i) == [e \in 1..Len(kept(i)) |-> m[i][kept(i)[e]]]
        upto[i \in 0..side] == IF i = 0 THEN << >> ELSE upto[i - 1] \o row(i)
    IN  upto[side]

\* C23: get_triu(data, k) returns, in row-major order, the elements of data
\* on or above the k-th diagonal, for every k; with k = 1 the N(N-1)/2
\* elements strictly above the main diagonal.
C23_TriuOfEveryDiagonal ==
    triu.pc = "done" =>
        /\ triu.result = OnOrAbove(triu.data, triu.k)
        /\ triu.k = 1 =>
              2 * Len(triu.result) = Len(triu.data) * (Len(triu.data) - 1)


\* C24: the duplicate-rotation warning is emitted for a column only if all
\* 500 attempts for it were rejected, so that the column stored equals an
\* earlier column or the identity mapping; a column whose 500th attempt is
\* a new candidate other than the identity is stored without a warning.
C24_WarningOnlyWhenExhausted ==
    [][warnings' > warnings => (duplicated /\ ~Fresh(resampled))]_vars


\* the number of positions before position i (from 0) that carry label h
Before(h, i) == Cardinality({j \in 0..(i - 1) : labels[j + 1] = h})

\* the donors (from 0, within the hemisphere) the solver of the last attempt
\* gave the points of hemisphere h, in their order
SolverColumn(h) ==
    hemisphere_mapping(exact, coords_of(coords, squeeze(astype_int(hemiid)), h),
                       IF h = 0 THEN spin.left ELSE spin.right).col

\* the entry of the candidate at position i is the position labelled h that
\* has m positions labelled h before it
IsPointOf(i, h, m) ==
    /\ resampled[i + 1] \in 0..(NPoints - 1)
    /\ labels[resampled[i + 1] + 1] = h
    /\ Before(h, resampled[i + 1]) = m

\* C25: whatever the interleaving of the labels, if position i is the k-th
\* point of hemisphere h and the solver gives it the m-th point of h, the
\* entry of the candidate at i is the position of the m-th point labelled
\* h; the candidate has N entries and every position belongs to exactly
\* one of the two hemispheres, so it is written once.
C25_MergedByPosition ==
    Attempted =>
        /\ Len(resampled) = NPoints
        /\ \A i \in 0..(NPoints - 1) : labels[i + 1] \in {0, 1}
        /\ \A left_col \in {SolverColumn(0)} : \A right_col \in {SolverColumn(1)} :
              \A i \in 0..(NPoints - 1) :
                  IF labels[i + 1] = 0
                  THEN IsPointOf(i, 0, left_col[Before(0, i) + 1])
                  ELSE IsPointOf(i, 1, right_col[Before(1, i) + 1])

\* the labels are interleaved, and a point of each hemisphere gets a donor
\* other than itself
C25_Witness ==
    /\ Attempted
    /\ labels[1] # labels[2]
    /\ \E i, j \in 1..NPoints :
          /\ labels[i] = 0
          /\ labels[j] = 1
          /\ resampled[i] # i - 1
          /\ resampled[j] # j - 1


\* the cost of the candidate that the rotations of the last attempt give
\* with exact=True or exact=False
ModeCost(mode) ==
    rotated_candidate(coords, squeeze(astype_int(hemiid)), mode, spin).ccost

\* no two entries of the sequence are equal
Injective(col) == \A i, j \in 1..Len(col) : col[i] = col[j] => i = j

\* the nearest donors of hemisphere h under the last rotations
NearestColumn(h) ==
    nearest_mapping(coords_of(coords, squeeze(astype_int(hemiid)), h),
                    IF h = 0 THEN spin.left ELSE spin.right).col

\* C29: for the coordinates and the rotations of an attempt the cost of the
\* exact candidate is at least the cost of the approximate candidate, and
\* the two are equal when the nearest donors are a bijection in both
\* hemispheres.  The cost of the mode of the call is the cost the attempt
\* has kept.
C29_ExactCostsAtLeastNearest ==
    Attempted =>
        \A other \in {ModeCost(~exact)} :
            /\ IF exact THEN ccost >= other ELSE other >= ccost
            /\ (Injective(NearestColumn(0)) /\ Injective(NearestColumn(1)))
                  => ccost = other

\* an exact attempt that costs more than nearest donors would
C29_Witness ==
    /\ Attempted
    /\ exact
    /\ ccost > ModeCost(FALSE)

\* an attempt whose nearest donors are a bijection other than the identity
C29_WitnessEqual ==
    /\ Attempted
    /\ exact
    /\ Injective(NearestColumn(0)) /\ Injective(NearestColumn(1))
    /\ resampled # IdentityColumn


\* the points (from 1) labelled h, their number, and the k-th of them
Side(h) == {i \in 1..NPoints : labels[i] = h}
HemiSize(h) == Cardinality(Side(h))
KthOf(h, k) == CHOOSE i \in Side(h) : Before(h, i - 1) = k - 1

\* the right coordinates are the mirror images of the left ones, listed in
\* the same order
MirroredHemispheres ==
    /\ ValidInput
    /\ HemiSize(0) = HemiSize(1)
    /\ \A k \in 1..HemiSize(0) : Point(KthOf(1, k)) = Mirror(Point(KthOf(0, k)))

\* by the table D of distances the donors of the left points are the only
\* ones of least distance
UniqueMinimum(D) ==
    IF exact
    THEN Cardinality({b \in AssignmentsOf(Side(0)) :
                         AssignedDistance(D, b, Side(0))
                             = AssignedDistance(D, Donors, Side(0))}) = 1
    ELSE \A i \in Side(0) :
             Cardinality({j \in Side(0) : D[i][j] = D[i][Donors[i]]}) = 1

\* C30: when the right coordinates mirror the left ones in the same order,
\* in every attempt the distance from the k-th right point to the rotated
\* m-th right point is the distance from the k-th left point to the rotated
\* m-th left point; the two hemispheres contribute the same cost; and when
\* the minimum is unique the donor of the k-th right point has the place
\* among the right points that the donor of the k-th left point has among
\* the left points.
C30_MirrorConsistency ==
    (MirroredHemispheres /\ Attempted) =>
        \A D \in {SpunDistances} :
            /\ \A k, m \in 1..HemiSize(0) :
                  D[KthOf(1, k)][KthOf(1, m)] = D[KthOf(0, k)][KthOf(0, m)]
            /\ AssignedDistance(D, Donors, Side(1))
                  = AssignedDistance(D, Donors, Side(0))
            /\ UniqueMinimum(D) =>
                  \A k \in 1..HemiSize(0) :
                      Before(1, resampled[KthOf(1, k)])
                          = Before(0, resampled[KthOf(0, k)])

\* mirrored hemispheres under two different rotations, the minimum unique
\* and the donors not the points themselves
C30_Witness ==
    /\ MirroredHemispheres
    /\ Attempted
    /\ spin.left # spin.right
    /\ UniqueMinimum(SpunDistances)
    /\ resampled # IdentityColumn


\* the call has raised before its first attempt
ValidationFailed == pc = "raised" /\ count = 0

\* C27: when validation fails no rotation has been generated: the generator
\* the caller passed is in the state it was passed in, numpy's global
\* generator is not drawn from, no warning has been emitted, coords and
\* hemiid are as they were given, and nothing is allocated or returned.
C27_ValidationFailsFast ==
    /\ [](ValidationFailed =>
              /\ draws = 0
              /\ warnings = 0
              /\ ~warned
              /\ result = None
              /\ spinsamples = << >>
              /\ cost = << >>
              /\ IsInstance(seed) => rs = Some(InstanceState(seed)))
    /\ [][(pc = "start" /\ pc' = "raised") =>
              /\ np_random' = np_random
              /\ coords' = coords
              /\ hemiid' = hemiid]_vars

\* a call given a generator of its own and labels of the wrong shape
C27_Witness ==
    /\ ValidationFailed
    /\ IsInstance(seed)
    /\ err = "ValueError"
    /\ Len(SqueezedLabelsShape) # 1


\* the number of columns the call before this one returned
Shorter == Len(previous[1].cost)

\* C28: with the same coords, labels, flags and integer seed, the first k
\* columns and costs returned for a larger n_rotate are the columns and
\* costs returned for n_rotate = k.
C28_Prefix ==
    (pc = "done" /\ calls = 2 /\ IsInteger(seed)) =>
        /\ Shorter < n_rotate
        /\ Len(previous[1].spinsamples) = Shorter
        /\ SubSeq(result[1].spinsamples, 1, Shorter) = previous[1].spinsamples
        /\ SubSeq(result[1].cost, 1, Shorter) = previous[1].cost

\* a call for one column, then a call for more whose columns differ from
\* one another
C28_Witness ==
    /\ pc = "done"
    /\ calls = 2
    /\ IsInteger(seed)
    /\ Shorter = 1
    /\ n_rotate = MaxRotate
    /\ result[1].spinsamples[1] # result[1].spinsamples[n_rotate]
    /\ result[1].spinsamples[1] # IdentityColumn


\* the number of the null statistics made that are at least the observed
\* one in absolute value, for output k
CountGeq(call, k) ==
    Cardinality({p \in 1..Len(call.nulls) :
        IF call.func = "pearsonr"
        THEN corr_abs_geq(call.nulls[p][k], call.observed[k])
        ELSE mean_abs_geq(call.nulls[p][k], call.observed[k])})

\* the value returned as p-value is (c + 1) / (n_perm + 1) for the count c
\* of the n_perm null statistics, and lies between 1 / (n_perm + 1) and 1
SmoothedPValues(call) ==
    /\ ~call.result[1].nan
    /\ Len(call.nulls) = call.n_perm
    /\ \A k \in 1..Len(call.result[1].pvals) :
          /\ call.result[1].pvals[k] =
                [num |-> CountGeq(call, k) + 1, den |-> call.n_perm + 1]
          /\ call.result[1].pvals[k].num >= 1
          /\ call.result[1].pvals[k].num <= call.result[1].pvals[k].den

\* C21 as stated: whenever a permutation test returns, the p-value is
\* (c + 1) / (n_perm + 1) with c the number of null statistics at least the
\* observed one in absolute value, so it lies between 1 / (n_perm + 1) and
\* 1.  A call with an empty sample returns nan as its p-value.
C21_PValueOfEveryCall ==
    permtest.pc = "done" => SmoothedPValues(permtest)

\* C21: whenever a permutation test returns for samples that are not empty
\* (n_perm >= 0), the p-value is (c + 1) / (n_perm + 1) with c the number
\* of the n_perm null statistics at least the observed one in absolute
\* value (ties count), so it lies between 1 / (n_perm + 1) and 1 and is
\* never 0.
C21_PValue ==
    (/\ permtest.pc = "done"
     /\ size(permtest.a) # 0
     /\ size(permtest.b) # 0) => SmoothedPValues(permtest)

C21_Witness ==
    /\ permtest.pc = "done"
    /\ size(permtest.a) # 0
    /\ permtest.n_perm = MaxPerm
    /\ permtest.result[1].pvals[1] = [num |-> MaxPerm, den |-> MaxPerm + 1]

\* C22: with a resampling array, permutation k reindexes a with column k of
\* the array, no more than n_perm columns are used, and an array of fewer
\* than n_perm columns is rejected with a ValueError before any null sample
\* is made.
C22_Resamples ==
    (permtest.func = "pearsonr" /\ permtest.resamples # None) =>
       /\ \A p \in 1..Len(permtest.outcomes) :
             /\ p <= permtest.n_perm
             /\ permtest.outcomes[p] = column(permtest.resamples[1], p - 1)
             /\ permtest.samples[p] =
                   reindexed(permtest.a.data, permtest.outcomes[p])
       /\ (/\ permtest.resamples[1].cols < permtest.n_perm
           /\ permtest.pc # "start") =>
              /\ permtest.pc = "raised"
              /\ permtest.err = "ValueError"
              /\ permtest.samples = << >>

\* entry (i, m) of sample j of a null sample is one of the pair, and the
\* two samples do not hold the same one
KeptOrSwapped(ab, null) ==
    \A i \in 1..Len(ab[1]) :
       \/ \A m \in 1..Len(ab[1][i]) :
             null[1][i][m] = ab[1][i][m] /\ null[2][i][m] = ab[2][i][m]
       \/ \A m \in 1..Len(ab[1][i]) :
             null[1][i][m] = ab[2][i][m] /\ null[2][i][m] = ab[1][i][m]

\* C26: for every axis, every permutation of permtest_rel keeps or swaps
\* each pair (a_i, b_i): a null pair holds a_i and b_i in some order, and
\* no index is out of range.
C26_PairsKeptOrSwapped ==
    permtest.func = "rel" =>
       /\ permtest.err # "IndexError"
       /\ \A p \in 1..Len(permtest.samples) :
             KeptOrSwapped(stacked(permtest.a, permtest.b), permtest.samples[p])

=============================================================================
